---- MODULE Spec2Model ----
(***************************************************************************)
(* A model of the calc expression evaluator: calclib.py (tokenize,         *)
(* implicit_multiplication, to_rpn, eval_rpn and the operator tables) and  *)
(* the read loop of calc.py.                                               *)
(*                                                                         *)
(* Strings are sequences of one-character strings.  A float is modelled    *)
(* exactly where IEEE arithmetic is exact: a dyadic rational n/d (d a      *)
(* power of two) with |n| and d at most ExactLimit is an "exact" value;    *)
(* every other float (an irrational or rounded result, a constant such as  *)
(* pi, a number too large for the model) is a "sym" value, the term that   *)
(* produced it.  factorial returns a Python int, and arithmetic on ints    *)
(* stays in the ints: an exact value carries its type, and an int above    *)
(* ExactLimit is a "symint" value.  An operation whose outcome depends on  *)
(* the numeric value of a sym or symint argument is outside the model and  *)
(* yields the Unmodelled outcome, about which no property says anything.   *)
(***************************************************************************)
EXTENDS Integers, Sequences, FiniteSets, TLC

(***************************************************************************)
(* Bounds of the model.                                                    *)
(***************************************************************************)
\* largest numerator and denominator kept as an exact value
ExactLimit == 4096
\* longest input line of the read loop, in lexemes of Alphabet
MaxLen == 3
\* longest token sequence handed directly to one stage
MaxTokens == 4

(***************************************************************************)
(* calclib.py, lines 26-27                                                 *)
(***************************************************************************)
LEFT == 1
RIGHT == 2
UNARY == 1
BINARY == 2

(***************************************************************************)
(* Values (the floats and ints) and exceptions.                            *)
(***************************************************************************)
\* the float n/d
Exact(n, d) == [kind |-> "exact", n |-> n, d |-> d, f |-> "float", args |-> <<>>]
\* the int n
PyInt(n) == [kind |-> "exact", n |-> n, d |-> 1, f |-> "int", args |-> <<>>]
\* the float, and the int, that the term f(args) stands for
Sym(f, args) == [kind |-> "sym", n |-> 0, d |-> 1, f |-> f, args |-> args]
SymInt(f, args) == [kind |-> "symint", n |-> 0, d |-> 1, f |-> f, args |-> args]
\* a string used as the argument of a message
Str(s) == [kind |-> "str", n |-> 0, d |-> 1, f |-> s, args |-> <<>>]
NoVal == [kind |-> "none", n |-> 0, d |-> 1, f |-> "", args |-> <<>>]

IsExact(v) == v.kind = "exact"
\* a value equal to an integer, of either type
IsInt(v) == v.kind = "exact" /\ v.d = 1
\* isinstance(v, int)
IsPyInt(v) == v.kind = "exact" /\ v.f = "int"
\* the float n.0
Int0(n) == Exact(n, 1)

NoExc == [type |-> "", msg |-> "", arg |-> NoVal]
Exc(type, msg, arg) == [type |-> type, msg |-> msg, arg |-> arg]
\* the outcome of an operation the model does not determine
Unmodelled == Exc("Unmodelled", "", NoVal)

\* a returned value, or a raised exception
Ret(v) == [val |-> v, exc |-> NoExc]
Raise(e) == [val |-> NoVal, exc |-> e]
Raised(r) == r.exc # NoExc

\* class hierarchy of the exceptions: CalcSyntaxError and CalcNameError
\* derive from ValueError; ZeroDivisionError and OverflowError do not
IsValueError(e) == e.type \in {"ValueError", "CalcSyntaxError", "CalcNameError"}

Abs(n) == IF n < 0 THEN -n ELSE n

RECURSIVE Reduce(_, _)
Reduce(n, d) ==
    IF d > 1 /\ n % 2 = 0 THEN Reduce(n \div 2, d \div 2) ELSE <<n, d>>

\* the float n/d, d a power of two
Dyadic(f, args, n, d) ==
    LET r == Reduce(n, d) IN
    IF Abs(r[1]) <= ExactLimit /\ r[2] <= ExactLimit
    THEN Ret(Exact(r[1], r[2]))
    ELSE Ret(Sym(f, args))

\* the int n
IntResult(f, args, n) ==
    IF Abs(n) <= ExactLimit THEN Ret(PyInt(n)) ELSE Ret(SymInt(f, args))

RECURSIVE IsPow2(_)
IsPow2(n) == IF n = 1 THEN TRUE ELSE IF n < 1 \/ n % 2 # 0 THEN FALSE ELSE IsPow2(n \div 2)

RECURSIVE BitLen(_)
BitLen(n) == IF n = 0 THEN 0 ELSE 1 + BitLen(n \div 2)

RECURSIVE ISqrt(_, _)
ISqrt(n, k) == IF k * k >= n THEN k ELSE ISqrt(n, k + 1)
IsSquare(n) == n >= 0 /\ ISqrt(n, 0) * ISqrt(n, 0) = n

RECURSIVE OddPart(_)
OddPart(n) == IF n % 2 = 0 THEN OddPart(n \div 2) ELSE n

\* n^e for n >= 0, e >= 0, or -1 once it exceeds ExactLimit
RECURSIVE PowAcc(_, _, _)
PowAcc(n, e, acc) ==
    IF e = 0 THEN acc
    ELSE IF acc * n > ExactLimit THEN -1
    ELSE PowAcc(n, e - 1, acc * n)
PowBounded(n, e) ==
    IF e = 0 \/ n = 1 THEN 1 ELSE IF n = 0 THEN 0 ELSE PowAcc(n, e, 1)

\* 1*2*...*n counted up from i, or -1 once it exceeds ExactLimit
RECURSIVE FactBounded(_, _, _)
FactBounded(i, n, acc) ==
    IF i > n THEN acc
    ELSE IF acc * i > ExactLimit THEN -1
    ELSE FactBounded(i + 1, n, acc * i)

Floor(v) == v.n \div v.d
Ceil(v) == -((-v.n) \div v.d)

(***************************************************************************)
(* The functions of the operator tables (module operator, module math).    *)
(***************************************************************************)
op_add(a, b) ==
    IF IsPyInt(a) /\ IsPyInt(b) THEN IntResult("+", <<a, b>>, a.n + b.n)
    ELSE IF IsExact(a) /\ IsExact(b)
    THEN Dyadic("+", <<a, b>>, a.n * b.d + b.n * a.d, a.d * b.d)
    ELSE Ret(Sym("+", <<a, b>>))

op_sub(a, b) ==
    IF IsPyInt(a) /\ IsPyInt(b) THEN IntResult("-", <<a, b>>, a.n - b.n)
    ELSE IF IsExact(a) /\ IsExact(b)
    THEN Dyadic("-", <<a, b>>, a.n * b.d - b.n * a.d, a.d * b.d)
    ELSE Ret(Sym("-", <<a, b>>))

op_mul(a, b) ==
    IF IsPyInt(a) /\ IsPyInt(b) THEN IntResult("*", <<a, b>>, a.n * b.n)
    ELSE IF IsExact(a) /\ IsExact(b)
    THEN Dyadic("*", <<a, b>>, a.n * b.n, a.d * b.d)
    ELSE Ret(Sym("*", <<a, b>>))

\* true division raises ZeroDivisionError exactly when the divisor is zero
op_truediv(a, b) ==
    IF ~IsExact(b) THEN Raise(Unmodelled)
    ELSE IF b.n = 0
    THEN Raise(Exc("ZeroDivisionError",
                   IF IsPyInt(a) /\ IsPyInt(b) THEN "division by zero"
                   ELSE "float division by zero", NoVal))
    ELSE IF ~IsExact(a) THEN Ret(Sym("/", <<a, b>>))
    ELSE LET sg == IF b.n < 0 THEN -1 ELSE 1
             num == sg * a.n * b.d
             den == a.d * Abs(b.n)
             o == OddPart(den)
         IN  IF num % o = 0
             THEN Dyadic("/", <<a, b>>, num \div o, den \div o)
             ELSE Ret(Sym("/", <<a, b>>))

\* (p/q)^e for p, q > 0 and an integer e >= 0, of sign sg
PowMag(a, b, sg, p, q, e) ==
    LET pe == PowBounded(p, e)
        qe == PowBounded(q, e)
    IN  IF pe # -1 /\ qe # -1 /\ (IsPow2(q) \/ e = 0)
        THEN Ret(Exact(sg * pe, qe))
        ELSE IF p <= q THEN Ret(Sym("^", <<a, b>>))
        ELSE IF e * (BitLen(p \div q) - 1) >= 1024
        THEN Raise(Exc("OverflowError", "(34, 'Numerical result out of range')", NoVal))
        ELSE IF e * BitLen(-((-p) \div q)) < 1024 THEN Ret(Sym("^", <<a, b>>))
        ELSE Raise(Unmodelled)

op_pow(a, b) ==
    IF ~IsExact(a) \/ ~IsExact(b) THEN Raise(Unmodelled)
    \* an int to a non-negative int is an int, however large
    ELSE IF IsPyInt(a) /\ IsPyInt(b) /\ b.n >= 0
    THEN LET sg == IF a.n < 0 /\ b.n % 2 # 0 THEN -1 ELSE 1
             pe == PowBounded(Abs(a.n), b.n)
         IN  IF pe # -1 THEN Ret(PyInt(sg * pe))
             ELSE IF b.n * BitLen(Abs(a.n)) < 1024 THEN Ret(SymInt("^", <<a, b>>))
             ELSE Raise(Unmodelled)
    ELSE IF b.d = 1
    THEN LET sg == IF a.n < 0 /\ b.n % 2 # 0 THEN -1 ELSE 1 IN
         IF b.n >= 0 THEN PowMag(a, b, sg, Abs(a.n), a.d, b.n)
         ELSE IF a.n = 0
         THEN Raise(Exc("ZeroDivisionError",
                        "0.0 cannot be raised to a negative power", NoVal))
         ELSE IF IsPow2(Abs(a.n)) THEN PowMag(a, b, sg, a.d, Abs(a.n), -b.n)
         ELSE IF a.d <= Abs(a.n) THEN Ret(Sym("^", <<a, b>>))
         ELSE Raise(Unmodelled)
    ELSE IF a.n = 0
    THEN IF b.n > 0 THEN Ret(Exact(0, 1))
         ELSE Raise(Exc("ZeroDivisionError",
                        "0.0 cannot be raised to a negative power", NoVal))
    ELSE IF a.n < 0 THEN Raise(Unmodelled)
    ELSE IF b.n < 0 \/ a.n <= a.d THEN Ret(Sym("^", <<a, b>>))
    ELSE IF Ceil(b) * BitLen(Ceil(a)) < 1024 THEN Ret(Sym("^", <<a, b>>))
    ELSE Raise(Unmodelled)

op_neg(a) ==
    IF IsExact(a) THEN Ret([a EXCEPT !.n = -@])
    ELSE IF a.kind = "symint" THEN Ret(SymInt("neg", <<a>>))
    ELSE Ret(Sym("neg", <<a>>))

op_pos(a) == Ret(a)

\* a float that is neither an infinity nor a nan, by the term it comes from
RECURSIVE IsFinite(_)
IsFinite(a) ==
    \/ IsExact(a)
    \/ /\ a.kind = "sym"
       /\ \/ a.f \in {"math.e", "math.pi", "sin", "cos", "asin", "acos", "atan"}
          \/ a.f = "float" /\ Len(a.args) <= 300
          \/ a.f \in {"sqrt", "tan", "neg"} /\ IsFinite(a.args[1])

math_sqrt(a) ==
    IF ~IsExact(a) THEN Raise(Unmodelled)
    ELSE IF a.n < 0 THEN Raise(Exc("ValueError", "math domain error", NoVal))
    ELSE IF IsSquare(a.n) /\ IsSquare(a.d)
    THEN Ret(Exact(ISqrt(a.n, 0), ISqrt(a.d, 0)))
    ELSE Ret(Sym("sqrt", <<a>>))

\* math.sin, math.cos and math.tan fail on an infinity
math_sin(a) ==
    IF ~IsFinite(a) THEN Raise(Unmodelled)
    ELSE IF IsExact(a) /\ a.n = 0 THEN Ret(Exact(0, 1)) ELSE Ret(Sym("sin", <<a>>))

math_cos(a) ==
    IF ~IsFinite(a) THEN Raise(Unmodelled)
    ELSE IF IsExact(a) /\ a.n = 0 THEN Ret(Exact(1, 1)) ELSE Ret(Sym("cos", <<a>>))

math_tan(a) ==
    IF ~IsFinite(a) THEN Raise(Unmodelled)
    ELSE IF IsExact(a) /\ a.n = 0 THEN Ret(Exact(0, 1)) ELSE Ret(Sym("tan", <<a>>))

math_asin(a) ==
    IF ~IsExact(a) THEN Raise(Unmodelled)
    ELSE IF Abs(a.n) > a.d THEN Raise(Exc("ValueError", "math domain error", NoVal))
    ELSE IF a.n = 0 THEN Ret(Exact(0, 1))
    ELSE Ret(Sym("asin", <<a>>))

math_acos(a) ==
    IF ~IsExact(a) THEN Raise(Unmodelled)
    ELSE IF Abs(a.n) > a.d THEN Raise(Exc("ValueError", "math domain error", NoVal))
    ELSE IF a.n = a.d THEN Ret(Exact(0, 1))
    ELSE Ret(Sym("acos", <<a>>))

math_atan(a) ==
    IF IsExact(a) /\ a.n = 0 THEN Ret(Exact(0, 1)) ELSE Ret(Sym("atan", <<a>>))

\* factorial without the test for a negative number
factorial_unsigned(num) ==
    IF ~IsExact(num) THEN Raise(Unmodelled)
    ELSE IF num.d # 1
    THEN Raise(Exc("ValueError",
                   "cannot calculate factorial of %s: number must be an integer", num))
    ELSE IF num.n > 170 THEN Raise(Unmodelled)
    ELSE LET r == FactBounded(2, num.n, 1) IN
         IF r = -1 THEN Ret(SymInt("!", <<num>>)) ELSE Ret(PyInt(r))

\* calclib.factorial: the product is an int
factorial(num) ==
    IF ~IsExact(num) THEN Raise(Unmodelled)
    ELSE IF num.d # 1
    THEN Raise(Exc("ValueError",
                   "cannot calculate factorial of %s: number must be an integer", num))
    ELSE IF num.n < 0
    THEN Raise(Exc("ValueError",
                   "cannot calculate factorial of %s: number must be non-negative", num))
    \* 171! and above are integers no float holds: what follows depends on
    \* whether the result is ever converted
    ELSE IF num.n > 170 THEN Raise(Unmodelled)
    ELSE LET r == FactBounded(2, num.n, 1) IN
         IF r = -1 THEN Ret(SymInt("!", <<num>>)) ELSE Ret(PyInt(r))

\* func_(*args) for the function named func_
Apply(func_, args) ==
    \* an int of unknown size: only its sign can be changed
    IF (\E i \in 1..Len(args) : args[i].kind = "symint")
       /\ func_ \notin {"operator.neg", "operator.pos", "None"}
    THEN Raise(Unmodelled)
    ELSE
    CASE func_ = "operator.pow" -> op_pow(args[1], args[2])
      [] func_ = "operator.truediv" -> op_truediv(args[1], args[2])
      [] func_ = "operator.mul" -> op_mul(args[1], args[2])
      [] func_ = "operator.add" -> op_add(args[1], args[2])
      [] func_ = "operator.sub" -> op_sub(args[1], args[2])
      [] func_ = "factorial" -> factorial(args[1])
      [] func_ = "operator.neg" -> op_neg(args[1])
      [] func_ = "operator.pos" -> op_pos(args[1])
      [] func_ = "math.sqrt" -> math_sqrt(args[1])
      [] func_ = "math.sin" -> math_sin(args[1])
      [] func_ = "math.cos" -> math_cos(args[1])
      [] func_ = "math.tan" -> math_tan(args[1])
      [] func_ = "math.asin" -> math_asin(args[1])
      [] func_ = "math.acos" -> math_acos(args[1])
      [] func_ = "math.atan" -> math_atan(args[1])
      \* the parentheses' func is None: calling it is a TypeError
      [] OTHER -> Raise(Exc("TypeError", "'NoneType' object is not callable", NoVal))

\* func(*args) as it is, the exception of func not replaced
call_unwrapped(func_, args) == Apply(func_, args)

\* newfunc of wrap_div_by_zero: func(*args), a ZeroDivisionError re-raised
\* with the message "division by zero"
wrap_div_by_zero(func_, args) ==
    LET r == Apply(func_, args) IN
    IF r.exc.type = "ZeroDivisionError"
    THEN Raise(Exc("ZeroDivisionError", "division by zero", NoVal))
    ELSE r

(***************************************************************************)
(* The operator classes and the tables binary, unary and constants.        *)
(***************************************************************************)
\* create_operator_class with the rank below the prefix operators' replaced
\* by the rank of + and -
create_operator_class_loose_postfix(clsname, name_, nargs_, rank_, func_, assoc_) ==
    [clsname |-> clsname, name |-> name_, nargs |-> nargs_,
     rank |-> IF rank_ < -1 THEN 3 ELSE rank_, func |-> func_, assoc |-> assoc_]

create_operator_class(clsname, name_, nargs_, rank_, func_, assoc_) ==
    [clsname |-> clsname, name |-> name_, nargs |-> nargs_, rank |-> rank_,
     func |-> func_, assoc |-> assoc_]

binary ==
    [key \in {"^", "/", "*", "+", "-"} |->
        CASE key = "^" -> create_operator_class("Exponent", "^", 2, 1, "operator.pow", RIGHT)
          [] key = "/" -> create_operator_class("Division", "/", 2, 2, "operator.truediv", LEFT)
          [] key = "*" -> create_operator_class("Multiplication", "*", 2, 2, "operator.mul", LEFT)
          [] key = "+" -> create_operator_class("Addition", "+", 2, 3, "operator.add", LEFT)
          [] key = "-" -> create_operator_class("Subtraction", "-", 2, 3, "operator.sub", LEFT)]

unary ==
    [key \in {"!", "-", "+", "sqrt", "sin", "cos", "tan", "asin", "acos", "atan",
              "arcsin", "arccos", "arctan"} |->
        CASE key = "!" -> create_operator_class("Factorial", "!", 1, -2, "factorial", LEFT)
          [] key = "-" -> create_operator_class("Negative", "-", 1, -1, "operator.neg", RIGHT)
          [] key = "+" -> create_operator_class("Positive", "+", 1, -1, "operator.pos", RIGHT)
          [] key = "sqrt" -> create_operator_class("SquareRoot", "sqrt", 1, -1, "math.sqrt", RIGHT)
          [] key = "sin" -> create_operator_class("Sine", "sin", 1, -1, "math.sin", RIGHT)
          [] key = "cos" -> create_operator_class("Cosine", "cos", 1, -1, "math.cos", RIGHT)
          [] key = "tan" -> create_operator_class("Tangent", "tan", 1, -1, "math.tan", RIGHT)
          [] key \in {"asin", "arcsin"} ->
                create_operator_class("InverseSine", "arcsin", 1, -1, "math.asin", RIGHT)
          [] key \in {"acos", "arccos"} ->
                create_operator_class("InverseCosine", "arccos", 1, -1, "math.acos", RIGHT)
          [] key \in {"atan", "arctan"} ->
                create_operator_class("InverseTangent", "arctan", 1, -1, "math.atan", RIGHT)]

\* LeftParenthesis with a rank below the operators'
LeftParenthesis_low_rank == create_operator_class("LeftParenthesis", "(", 0, 0, "None", 0)

LeftParenthesis == create_operator_class("LeftParenthesis", "(", 0, 9999, "None", 0)
RightParenthesis == create_operator_class("RightParenthesis", ")", 0, 9999, "None", 0)

\* Number is a float subclass, not an operator class; it has none of the
\* class attributes
NumberClass == create_operator_class("Number", "", 0, 0, "None", 0)

\* Position of a token built without one (pos=None)
NoPos == -1

\* Number(value, pos)
Number(value, pos) == [cls |-> NumberClass, val |-> value, pos |-> pos]
\* cls(pos), an instance of an operator class
Instance(cls, pos) == [cls |-> cls, val |-> NoVal, pos |-> pos]

constants ==
    [key \in {"e", "pi"} |->
        IF key = "e" THEN Number(Sym("math.e", <<>>), NoPos)
        ELSE Number(Sym("math.pi", <<>>), NoPos)]

\* isinstance(token, ...)
IsNumber(token) == token.cls.clsname = "Number"
IsOperator(token) == token.cls.clsname # "Number"
IsLeftParenthesis(token) == token.cls.clsname = "LeftParenthesis"
IsRightParenthesis(token) == token.cls.clsname = "RightParenthesis"

\* Operator.__call__: self.__class__.func(*args)
Call(token, args) == wrap_div_by_zero(token.cls.func, args)

(***************************************************************************)
(* Strings: sequences of one-character strings, indexed from 0 as in the   *)
(* source (the character at offset p of s is s[p + 1]).                    *)
(***************************************************************************)
Lower == {"a", "b", "c", "d", "e", "f", "g", "h", "i", "j", "k", "l", "m", "n",
          "o", "p", "q", "r", "s", "t", "u", "v", "w", "x", "y", "z"}
Digit == {"0", "1", "2", "3", "4", "5", "6", "7", "8", "9"}
\* the characters s.strip() removes: calc.py is a Python 2 program, its lines
\* are byte strings, and str.strip removes the ASCII blanks only
Space == {" ", "\t"}
\* the characters \s matches under re.UNICODE (line 148): the blanks, and
\* the characters the Unicode database counts as whitespace, among them the
\* separators 0x1c-0x1f, written "\\x1c" here
UnicodeSpace == Space \cup {"\\x1c"}

DigitVal(c) ==
    CASE c = "0" -> 0 [] c = "1" -> 1 [] c = "2" -> 2 [] c = "3" -> 3 [] c = "4" -> 4
      [] c = "5" -> 5 [] c = "6" -> 6 [] c = "7" -> 7 [] c = "8" -> 8 [] c = "9" -> 9

\* s.strip()
RECURSIVE lstrip(_)
lstrip(s) == IF s # <<>> /\ Head(s) \in Space THEN lstrip(Tail(s)) ELSE s
RECURSIVE rstrip(_)
rstrip(s) ==
    IF s # <<>> /\ s[Len(s)] \in Space THEN rstrip(SubSeq(s, 1, Len(s) - 1)) ELSE s
strip(s) == rstrip(lstrip(s))

\* the offset after the longest run of characters of class cls starting at p
RECURSIVE RunEnd(_, _, _)
RunEnd(s, p, cls) ==
    IF p < Len(s) /\ s[p + 1] \in cls THEN RunEnd(s, p + 1, cls) ELSE p

\* s[a:b]
Slice(s, a, b) == SubSeq(s, a + 1, b)

\* token_re.match(s, pos): the group that matched, its text and m.end();
\* group "none" when the pattern does not match (m is None)
token_re_match(s, pos) ==
    LET c == s[pos + 1]
        wend == RunEnd(s, pos, Lower)
        dend == RunEnd(s, pos, Digit)
        \* \d+(?:\.\d*)?
        nend1 == IF dend < Len(s) /\ s[dend + 1] = "."
                 THEN RunEnd(s, dend + 1, Digit) ELSE dend
        \* \.\d+
        nend2 == RunEnd(s, pos + 1, Digit)
        M(g, e) == [group |-> g, text |-> Slice(s, pos, e), end |-> RunEnd(s, e, UnicodeSpace)]
    IN  IF c \in Lower THEN M("word", wend)
        ELSE IF c \in Digit THEN M("number", nend1)
        ELSE IF c = "." /\ nend2 > pos + 1 THEN M("number", nend2)
        ELSE IF c \notin UnicodeSpace THEN M("symbol", pos + 1)
        ELSE [group |-> "none", text |-> <<>>, end |-> pos]

\* the digits of text as an integer, or -1 once it exceeds bound
RECURSIVE DigitsVal(_, _, _)
DigitsVal(text, acc, bound) ==
    IF text = <<>> THEN acc
    ELSE IF Head(text) = "." THEN DigitsVal(Tail(text), acc, bound)
    ELSE IF acc * 10 + DigitVal(Head(text)) > bound THEN -1
    ELSE DigitsVal(Tail(text), acc * 10 + DigitVal(Head(text)), bound)

RECURSIVE FracDigits(_)
FracDigits(text) ==
    IF text = <<>> THEN 0
    ELSE IF Head(text) = "." THEN Len(text) - 1
    ELSE FracDigits(Tail(text))

RECURSIVE Pow5Divide(_, _)
\* <<n / 5^j, k - j>> for the largest j <= k with 5^j dividing n
Pow5Divide(n, k) ==
    IF k > 0 /\ n % 5 = 0 THEN Pow5Divide(n \div 5, k - 1) ELSE <<n, k>>

\* float(text) for a literal matched by the number group
float(text) ==
    LET k == FracDigits(text)
        N == DigitsVal(text, 0, ExactLimit * 8)
        lit == Sym("float", [i \in 1..Len(text) |-> Str(text[i])])
        q == Pow5Divide(N, k)
        twok == PowBounded(2, k)
    IN  IF N = -1 \/ twok = -1 THEN lit
        ELSE IF N = 0 THEN Exact(0, 1)
        ELSE IF q[2] # 0 THEN lit
        ELSE Dyadic("float", lit.args, q[1], twok).val

(***************************************************************************)
(* tokenize (calclib.py, lines 150-223)                                    *)
(***************************************************************************)
\* should_be_right_unary looking only at the arity of the previous operator
should_be_right_unary_binary_only(prev_token, has_prev) ==
    \/ ~has_prev
    \/ IsLeftParenthesis(prev_token)
    \/ IsOperator(prev_token) /\ prev_token.cls.nargs = 2

should_be_right_unary(prev_token, has_prev) ==
    \/ ~has_prev
    \/ IsLeftParenthesis(prev_token)
    \/ /\ IsOperator(prev_token)
       /\ (prev_token.cls.nargs = 2 \/ prev_token.cls.assoc = RIGHT)

\* the text of a one-character or word key as one string
RECURSIVE KeyOf(_)
KeyOf(text) == IF text = <<>> THEN "" ELSE Head(text) \o KeyOf(Tail(text))

\* a produced token, or a raised exception
Tok(token) == [tok |-> token, exc |-> NoExc]
TokRaise(e) == [tok |-> Instance(NumberClass, NoPos), exc |-> e]

\* lines 176-207: a symbol at offset pos after the tokens produced so far
tokenize_symbol(key, tokens, pos) ==
    LET has_prev == Len(tokens) > 0
        prev_token == IF has_prev THEN tokens[Len(tokens)] ELSE Instance(NumberClass, NoPos)
        known == key \in DOMAIN unary \/ key \in DOMAIN binary
        bad == IF ~known
               THEN TokRaise(Exc("CalcSyntaxError", "invalid operator: %s", Str(key)))
               ELSE TokRaise(Exc("CalcSyntaxError",
                                 "operator '%s' is in the wrong place", Str(key)))
    IN  IF key = "(" THEN Tok(Instance(LeftParenthesis, pos))
        ELSE IF key = ")" THEN Tok(Instance(RightParenthesis, pos))
        ELSE IF should_be_right_unary(prev_token, has_prev)
        THEN IF key \in DOMAIN unary /\ unary[key].assoc = RIGHT
             THEN Tok(Instance(unary[key], pos))
             ELSE bad
        ELSE IF key \in DOMAIN unary /\ unary[key].assoc = LEFT
             THEN Tok(Instance(unary[key], pos))
             ELSE IF key \in DOMAIN binary THEN Tok(Instance(binary[key], pos))
             ELSE bad

\* tokenize_word reporting an unknown word as an invalid operator
tokenize_word_as_symbol(key, pos) ==
    IF key \in DOMAIN constants THEN Tok(constants[key])
    ELSE IF key \in DOMAIN unary THEN Tok(Instance(unary[key], pos))
    ELSE TokRaise(Exc("CalcSyntaxError", "invalid operator: %s", Str(key)))

\* lines 209-219: a word at offset pos
tokenize_word(key, pos) ==
    IF key \in DOMAIN constants THEN Tok(constants[key])
    ELSE IF key \in DOMAIN unary THEN Tok(Instance(unary[key], pos))
    ELSE TokRaise(Exc("CalcNameError", "I don't know what '%s' means", Str(key)))

\* the state of a call of tokenize: lines 163-165
tokenize_init(s0) ==
    [s |-> strip(s0), pos |-> 0, tokens |-> <<>>, pc |-> "while", exc |-> NoExc]

\* one pass of the while loop (lines 167-222), the return (line 223) or a raise
tokenize_step(t) ==
    IF ~(t.pos < Len(t.s)) THEN [t EXCEPT !.pc = "return"]
    ELSE LET m == token_re_match(t.s, t.pos)
             r == CASE m.group = "number" -> Tok(Number(float(m.text), t.pos))
                    [] m.group = "symbol" -> tokenize_symbol(KeyOf(m.text), t.tokens, t.pos)
                    [] m.group = "word" -> tokenize_word(KeyOf(m.text), t.pos)
                    \* m is None: m.groupdict() fails
                    [] OTHER -> TokRaise(Exc("AttributeError",
                                   "'NoneType' object has no attribute 'groupdict'", NoVal))
         IN  IF r.exc # NoExc THEN [t EXCEPT !.pc = "raise", !.exc = r.exc]
             ELSE [t EXCEPT !.tokens = Append(@, r.tok), !.pos = m.end]

RECURSIVE tokenize_run(_)
tokenize_run(t) == IF t.pc # "while" THEN t ELSE tokenize_run(tokenize_step(t))

\* the result of a stage: the token list it returns, or the exception it raises
Tokens(tokens) == [tokens |-> tokens, exc |-> NoExc]
Fail(e) == [tokens |-> <<>>, exc |-> e]

tokenize(s0) ==
    LET t == tokenize_run(tokenize_init(s0)) IN
    IF t.pc = "return" THEN Tokens(t.tokens) ELSE Fail(t.exc)

(***************************************************************************)
(* implicit_multiplication (calclib.py, lines 225-234)                     *)
(***************************************************************************)
\* the frame of a call: given is the caller's list, tokens the copy of line
\* 227 that the loop inserts into, i the scan index
implicit_init(tokens) ==
    [given |-> tokens, tokens |-> tokens, i |-> 0, pc |-> "while"]

\* tokens.insert(at, x)
Insert(tokens, at, x) ==
    SubSeq(tokens, 1, at) \o <<x>> \o SubSeq(tokens, at + 1, Len(tokens))

\* implicit_step giving the inserted token the position of the token before
implicit_step_pos_before(f) ==
    IF ~(f.i < Len(f.tokens) - 1) THEN [f EXCEPT !.pc = "return"]
    ELSE LET a == f.tokens[f.i + 1]
             b == f.tokens[f.i + 2]
         IN  IF /\ (IsRightParenthesis(a) \/ IsNumber(a))
                /\ (IsLeftParenthesis(b) \/ IsNumber(b))
             THEN [f EXCEPT !.tokens = Insert(@, f.i + 1, Instance(binary["*"], a.pos)),
                            !.i = @ + 1]
             ELSE [f EXCEPT !.i = @ + 1]

\* implicit_step without the copy of line 227: the insertion is made in the
\* caller's list
implicit_step_in_place(f) ==
    IF ~(f.i < Len(f.tokens) - 1) THEN [f EXCEPT !.pc = "return"]
    ELSE LET a == f.tokens[f.i + 1]
             b == f.tokens[f.i + 2]
         IN  IF /\ (IsRightParenthesis(a) \/ IsNumber(a))
                /\ (IsLeftParenthesis(b) \/ IsNumber(b))
             THEN [f EXCEPT !.tokens = Insert(@, f.i + 1, Instance(binary["*"], b.pos)),
                            !.given = Insert(@, f.i + 1, Instance(binary["*"], b.pos)),
                            !.i = @ + 1]
             ELSE [f EXCEPT !.i = @ + 1]

\* implicit_step inserting only before a number, not before a parenthesis
implicit_step_numbers_only(f) ==
    IF ~(f.i < Len(f.tokens) - 1) THEN [f EXCEPT !.pc = "return"]
    ELSE LET a == f.tokens[f.i + 1]
             b == f.tokens[f.i + 2]
         IN  IF (IsRightParenthesis(a) \/ IsNumber(a)) /\ IsNumber(b)
             THEN [f EXCEPT !.tokens = Insert(@, f.i + 1, Instance(binary["*"], b.pos)),
                            !.i = @ + 1]
             ELSE [f EXCEPT !.i = @ + 1]

implicit_step(f) ==
    IF ~(f.i < Len(f.tokens) - 1) THEN [f EXCEPT !.pc = "return"]
    ELSE LET a == f.tokens[f.i + 1]
             b == f.tokens[f.i + 2]
         IN  IF /\ (IsRightParenthesis(a) \/ IsNumber(a))
                /\ (IsLeftParenthesis(b) \/ IsNumber(b))
             THEN [f EXCEPT !.tokens = Insert(@, f.i + 1, Instance(binary["*"], b.pos)),
                            !.i = @ + 1]
             ELSE [f EXCEPT !.i = @ + 1]

RECURSIVE implicit_run(_)
implicit_run(f) == IF f.pc # "while" THEN f ELSE implicit_run(implicit_step(f))

implicit_multiplication(tokens) == implicit_run(implicit_init(tokens)).tokens

(***************************************************************************)
(* to_rpn (calclib.py, lines 236-291)                                      *)
(***************************************************************************)
Top(stack) == stack[Len(stack)]
Pop(stack) == SubSeq(stack, 1, Len(stack) - 1)

\* pops_lower comparing the sizes of the ranks, not the signed ranks
pops_lower_abs(token, stack) ==
    /\ stack # <<>>
    /\ \/ token.cls.assoc = LEFT /\ Abs(token.cls.rank) >= Abs(Top(stack).cls.rank)
       \/ token.cls.assoc = RIGHT /\ Abs(token.cls.rank) > Abs(Top(stack).cls.rank)

\* pops_lower with every operator taken as left-associative
pops_lower_all_left(token, stack) ==
    /\ stack # <<>>
    /\ token.cls.rank >= Top(stack).cls.rank

\* pops_lower with the strict comparison for every operator
pops_lower_strict(token, stack) ==
    /\ stack # <<>>
    /\ token.cls.rank > Top(stack).cls.rank

\* the condition of the while loop of lines 273-275
pops_lower(token, stack) ==
    /\ stack # <<>>
    /\ \/ token.cls.assoc = LEFT /\ token.cls.rank >= Top(stack).cls.rank
       \/ token.cls.assoc = RIGHT /\ token.cls.rank > Top(stack).cls.rank

\* lines 243-245; k counts the tokens the for loop has taken
to_rpn_init(tokens) ==
    [tokens |-> tokens, k |-> 0, token |-> Instance(NumberClass, NoPos),
     out |-> <<>>, stack |-> <<>>, pc |-> "for", exc |-> NoExc]

\* line 247 and the branch of the token it takes
to_rpn_for(f) ==
    IF f.k = Len(f.tokens) THEN [f EXCEPT !.pc = "final"]
    ELSE LET token == f.tokens[f.k + 1]
             g == [f EXCEPT !.k = @ + 1, !.token = token]
         IN  IF IsNumber(token) THEN [g EXCEPT !.out = Append(@, token)]
             ELSE IF IsLeftParenthesis(token) THEN [g EXCEPT !.stack = Append(@, token)]
             ELSE IF IsRightParenthesis(token) THEN [g EXCEPT !.pc = "rparen"]
             ELSE [g EXCEPT !.pc = "oper"]

\* to_rpn_rparen taking an empty stack as the end of the group
to_rpn_rparen_lenient(f) ==
    IF f.stack = <<>> THEN [f EXCEPT !.pc = "for"]
    ELSE IF ~IsLeftParenthesis(Top(f.stack))
    THEN [f EXCEPT !.out = Append(@, Top(f.stack)), !.stack = Pop(@)]
    ELSE [f EXCEPT !.stack = Pop(@), !.pc = "for"]

\* lines 262-268: one pass of the loop of a right parenthesis
to_rpn_rparen(f) ==
    IF f.stack = <<>>
    THEN [f EXCEPT !.pc = "raise",
                   !.exc = Exc("CalcSyntaxError", "too many right parentheses", NoVal)]
    ELSE IF ~IsLeftParenthesis(Top(f.stack))
    THEN [f EXCEPT !.out = Append(@, Top(f.stack)), !.stack = Pop(@)]
    ELSE [f EXCEPT !.stack = Pop(@), !.pc = "for"]

\* lines 273-278: one pass of the loop of an operator, or its push
to_rpn_oper(f) ==
    IF pops_lower(f.token, f.stack)
    THEN [f EXCEPT !.out = Append(@, Top(f.stack)), !.stack = Pop(@)]
    ELSE [f EXCEPT !.stack = Append(@, f.token), !.pc = "for"]

\* to_rpn_final dropping a left parenthesis that was never closed
to_rpn_final_lenient(f) ==
    IF f.stack = <<>> THEN [f EXCEPT !.pc = "return"]
    ELSE IF IsLeftParenthesis(Top(f.stack)) THEN [f EXCEPT !.stack = Pop(@)]
    ELSE [f EXCEPT !.out = Append(@, Top(f.stack)), !.stack = Pop(@)]

\* lines 284-291: one pass of the final loop, or the return
to_rpn_final(f) ==
    IF f.stack = <<>> THEN [f EXCEPT !.pc = "return"]
    ELSE IF IsLeftParenthesis(Top(f.stack))
    THEN [f EXCEPT !.stack = Pop(@), !.pc = "raise",
                   !.exc = Exc("CalcSyntaxError", "too many left parentheses", NoVal)]
    ELSE [f EXCEPT !.out = Append(@, Top(f.stack)), !.stack = Pop(@)]

to_rpn_step(f) ==
    CASE f.pc = "for" -> to_rpn_for(f)
      [] f.pc = "rparen" -> to_rpn_rparen(f)
      [] f.pc = "oper" -> to_rpn_oper(f)
      [] f.pc = "final" -> to_rpn_final(f)

RECURSIVE to_rpn_run(_)
to_rpn_run(f) ==
    IF f.pc \in {"return", "raise"} THEN f ELSE to_rpn_run(to_rpn_step(f))

to_rpn(tokens) ==
    LET f == to_rpn_run(to_rpn_init(tokens)) IN
    IF f.pc = "return" THEN Tokens(f.out) ELSE Fail(f.exc)

(***************************************************************************)
(* eval_rpn (calclib.py, lines 293-314)                                    *)
(***************************************************************************)
eval_rpn_init(tokens) ==
    [tokens |-> tokens, k |-> 0, stack |-> <<>>, pc |-> "for", exc |-> NoExc,
     val |-> NoVal]

\* stack[-n:]
LastN(stack, n) ==
    IF n = 0 THEN stack ELSE SubSeq(stack, Len(stack) - n + 1, Len(stack))
\* stack[-n:] = [x]
ReplaceLastN(stack, n, x) ==
    IF n = 0 THEN <<x>> ELSE Append(SubSeq(stack, 1, Len(stack) - n), x)

\* lines 297-305: one pass of the for loop
eval_rpn_for(f) ==
    IF f.k = Len(f.tokens) THEN [f EXCEPT !.pc = "end"]
    ELSE LET token == f.tokens[f.k + 1]
             g == [f EXCEPT !.k = @ + 1]
         IN  IF IsNumber(token) THEN [g EXCEPT !.stack = Append(@, token.val)]
             ELSE IF Len(f.stack) < token.cls.nargs
             THEN [g EXCEPT !.pc = "raise",
                            !.exc = Exc("CalcSyntaxError", "not enough values for %s",
                                        Str(token.cls.name))]
             ELSE LET r == Call(token, LastN(f.stack, token.cls.nargs)) IN
                  IF Raised(r) THEN [g EXCEPT !.pc = "raise", !.exc = r.exc]
                  ELSE [g EXCEPT !.stack = ReplaceLastN(@, token.cls.nargs, r.val)]

\* eval_rpn_end returning the top of any stack that is not empty
eval_rpn_end_top(f) ==
    IF Len(f.stack) = 0
    THEN [f EXCEPT !.pc = "raise",
                   !.exc = Exc("CalcSyntaxError",
                               "I don't understand what you're trying to say", NoVal)]
    ELSE [f EXCEPT !.pc = "return", !.val = f.stack[Len(f.stack)]]

\* lines 311-314
eval_rpn_end(f) ==
    IF Len(f.stack) # 1
    THEN [f EXCEPT !.pc = "raise",
                   !.exc = Exc("CalcSyntaxError",
                               "I don't understand what you're trying to say", NoVal)]
    ELSE [f EXCEPT !.pc = "return", !.val = f.stack[1]]

eval_rpn_step(f) ==
    CASE f.pc = "for" -> eval_rpn_for(f)
      [] f.pc = "end" -> eval_rpn_end(f)

RECURSIVE eval_rpn_run(_)
eval_rpn_run(f) ==
    IF f.pc \in {"return", "raise"} THEN f ELSE eval_rpn_run(eval_rpn_step(f))

eval_rpn(tokens) ==
    LET f == eval_rpn_run(eval_rpn_init(tokens)) IN
    IF f.pc = "return" THEN Ret(f.val) ELSE Raise(f.exc)

\* eval_rpn(to_rpn(implicit_multiplication(tokenize(s)))), as in
\* calclib.main (line 327) and calc.main (lines 31-34)
evaluate(s0) ==
    LET t == tokenize(s0) IN
    IF t.exc # NoExc THEN Raise(t.exc)
    ELSE LET r == to_rpn(implicit_multiplication(t.tokens)) IN
         IF r.exc # NoExc THEN Raise(r.exc) ELSE eval_rpn(r.tokens)

(***************************************************************************)
(* The inputs.                                                             *)
(***************************************************************************)
\* the lexemes the lines of the read loop are made of
Alphabet ==
    {<<"0">>, <<"2">>, <<"3">>, <<"^">>, <<"/">>, <<"-">>, <<"!">>, <<"(">>, <<")">>,
     <<" ">>, <<".">>, <<"p", "i">>, <<"s", "i", "n">>, <<"e">>, <<"\\x1c">>}

RECURSIVE Concat(_)
Concat(ss) == IF ss = <<>> THEN <<>> ELSE Head(ss) \o Concat(Tail(ss))

RECURSIVE SeqsOver(_, _)
\* the concatenations of exactly n elements of the set S of strings
SeqsOver(S, n) ==
    IF n = 0 THEN {<<>>} ELSE {s \o c : s \in SeqsOver(S, n - 1), c \in S}

\* the characters of a key
Chars(key) ==
    CASE key = "pi" -> <<"p", "i">>
      [] key = "sqrt" -> <<"s", "q", "r", "t">>
      [] key = "sin" -> <<"s", "i", "n">>
      [] key = "cos" -> <<"c", "o", "s">>
      [] key = "tan" -> <<"t", "a", "n">>
      [] key = "asin" -> <<"a", "s", "i", "n">>
      [] key = "acos" -> <<"a", "c", "o", "s">>
      [] key = "atan" -> <<"a", "t", "a", "n">>
      [] key = "arcsin" -> <<"a", "r", "c", "s", "i", "n">>
      [] key = "arccos" -> <<"a", "r", "c", "c", "o", "s">>
      [] key = "arctan" -> <<"a", "r", "c", "t", "a", "n">>
      [] OTHER -> <<key>>

\* the prefix unary operators: the right-associative entries of unary
PrefixKeys == {key \in DOMAIN unary : unary[key].assoc = RIGHT}
BinaryKeys == DOMAIN binary
Nums == {"0", "1", "2", "3", "4"}

\* a ^ b ^ c
ExponentChains == {<<a, "^", b, "^", c>> : a \in Nums, b \in Nums, c \in Nums}
\* u x b y
PrefixThenBinary ==
    {Chars(u) \o <<" ", x>> \o Chars(b) \o <<y>> :
        u \in PrefixKeys, x \in Nums, b \in BinaryKeys, y \in Nums}
\* values written side by side, between an operator before and one after
Juxtaposed ==
    LET V == {<<"2">>, <<"(", "3", ")">>, <<"p", "i">>}
        J == {<<>>, <<" ">>}
        Pre == {<<>>, <<"6", "/">>, <<"-">>}
        Post == {<<>>, <<"^", "2">>, <<"!">>}
    IN  {a \o v \o j \o w \o z : a \in Pre, v \in V, j \in J, w \in V, z \in Post}
        \cup {v \o j \o w \o k \o u : v \in V, j \in J, w \in V, k \in J, u \in V}
\* further lines: an overflow, factorials of a negative and of a fraction,
\* a division by zero after an open parenthesis and before a misplaced symbol
Others ==
    {<<"2", "^", "2", "2", "2", "2">>, <<"(", "-", "3", ")", "!">>,
     <<"(", "3", "/", "2", ")", "!">>, <<"3", "+", "2">>,
     <<"(", "3", "/", "0">>, <<"3", "/", "0", "/", "/">>}

\* a b c, a b c b d: numbers with a binary operator between each two
BinaryChains ==
    LET B == {Chars(b) : b \in BinaryKeys}
    IN  {<<x>> \o b \o <<y>> \o c \o <<z>> : x \in {"2", "3", "4"}, y \in {"2", "3", "4"},
            z \in {"2", "3", "4"}, b \in B, c \in B}
        \cup {<<w>> \o a \o <<x>> \o b \o <<y>> \o c \o <<z>> :
                w \in {"2", "3"}, x \in {"2", "3"}, y \in {"2", "3"}, z \in {"2", "3"},
                a \in B, b \in B, c \in B}

\* u x !, y b x !
PostfixLines ==
    {Chars(u) \o <<" ", x, "!">> : u \in PrefixKeys, x \in Nums}
    \cup {<<y>> \o Chars(b) \o <<x, "!">> : y \in {"2", "3"}, b \in BinaryKeys, x \in Nums}

Lines ==
    UNION {SeqsOver(Alphabet, n) : n \in 0..MaxLen}
    \cup ExponentChains \cup PrefixThenBinary \cup Juxtaposed \cup Others
    \cup BinaryChains \cup PostfixLines

\* token sequences handed directly to one stage: the i-th token carries
\* position i - 1
Positioned(toks) ==
    [i \in 1..Len(toks) |->
        IF toks[i].pos = NoPos /\ IsNumber(toks[i]) /\ toks[i].val.kind = "sym"
        THEN toks[i] ELSE [toks[i] EXCEPT !.pos = i - 1]]

RECURSIVE TokenSeqs(_, _)
TokenSeqs(S, n) ==
    IF n = 0 THEN {<<>>} ELSE {Append(s, c) : s \in TokenSeqs(S, n - 1), c \in S}

StageInputs(S) == {Positioned(s) : s \in UNION {TokenSeqs(S, n) : n \in 0..MaxTokens}}

ImplicitAlphabet ==
    {Number(Int0(2), 0), constants["pi"], Instance(LeftParenthesis, 0),
     Instance(RightParenthesis, 0), Instance(unary["sin"], 0), Instance(unary["!"], 0),
     Instance(binary["-"], 0), Instance(binary["*"], 0)}

ToRpnAlphabet ==
    {Number(Int0(2), 0), Instance(LeftParenthesis, 0), Instance(RightParenthesis, 0),
     Instance(binary["^"], 0), Instance(binary["*"], 0), Instance(binary["-"], 0),
     Instance(unary["-"], 0), Instance(unary["!"], 0)}

EvalRpnAlphabet ==
    {Number(Int0(0), 0), Number(Int0(3), 0), Number(Exact(1, 2), 0),
     Instance(binary["/"], 0), Instance(binary["^"], 0), Instance(binary["-"], 0),
     Instance(unary["-"], 0), Instance(unary["!"], 0)}

(***************************************************************************)
(* The state.                                                              *)
(***************************************************************************)
VARIABLES
    pc,       \* where calc.main is
    line,     \* expr after line 29: the stripped input line
    expr,     \* expr after lines 31-33: a token list
    res,      \* res of line 34
    exc,      \* the exception raised in the try block
    written,  \* the last thing written to stdout or stderr
    ts,       \* a call of tokenize
    ims,      \* a call of implicit_multiplication
    rs,       \* a call of to_rpn
    es        \* a call of eval_rpn

vars == <<pc, line, expr, res, exc, written, ts, ims, rs, es>>
mainvars == <<pc, line, expr, res, exc, written>>

Wrote(stream, text, val, e) == [stream |-> stream, text |-> text, val |-> val, exc |-> e]

\* no call of the stage in progress
IdleTokenize == [tokenize_init(<<>>) EXCEPT !.pc = "idle"]
IdleImplicit == [implicit_init(<<>>) EXCEPT !.pc = "idle"]
IdleToRpn == [to_rpn_init(<<>>) EXCEPT !.pc = "idle"]
IdleEvalRpn == [eval_rpn_init(<<>>) EXCEPT !.pc = "idle"]

MainIdle ==
    /\ pc = "idle" /\ line = <<>> /\ expr = <<>> /\ res = NoVal /\ exc = NoExc
    /\ written = Wrote("none", "", NoVal, NoExc)

(***************************************************************************)
(* calc.main (calc.py, lines 24-41)                                        *)
(***************************************************************************)
Init ==
    /\ pc = "banner" /\ line = <<>> /\ expr = <<>> /\ res = NoVal /\ exc = NoExc
    /\ written = Wrote("none", "", NoVal, NoExc)
    /\ ts = IdleTokenize /\ ims = IdleImplicit /\ rs = IdleToRpn /\ es = IdleEvalRpn

\* line 25
Banner ==
    /\ pc = "banner"
    /\ written' = Wrote("stderr", "BANNER", NoVal, NoExc)
    /\ pc' = "prompt"
    /\ UNCHANGED <<line, expr, res, exc, ts, ims, rs, es>>

\* line 29: raw_input writes the prompt.  The values left in expr and res by
\* the line before are dead here and are dropped.
Prompt ==
    /\ pc = "prompt"
    /\ written' = Wrote("stdout", "calc> ", NoVal, NoExc)
    /\ line' = <<>> /\ expr' = <<>> /\ res' = NoVal /\ exc' = NoExc
    /\ pc' = "read"
    /\ UNCHANGED <<ts, ims, rs, es>>

\* lines 29-30: a line is read and stripped; an empty one is skipped
ReadLine ==
    /\ pc = "read"
    /\ \E l \in Lines :
        /\ line' = strip(l)
        /\ pc' = IF strip(l) # <<>> THEN "tokenize" ELSE "prompt"
    /\ UNCHANGED <<expr, res, exc, written, ts, ims, rs, es>>

\* lines 38-39: end of input
ReadEOF ==
    /\ pc = "read"
    /\ written' = Wrote("stderr", "\ncaught EOF", NoVal, NoExc)
    /\ exc' = Exc("EOFError", "", NoVal)
    /\ pc' = "exit"
    /\ UNCHANGED <<line, expr, res, ts, ims, rs, es>>

\* lines 40-41: an interrupt, anywhere in the loop
Interrupt ==
    /\ pc \in {"prompt", "read", "tokenize", "implicit", "to_rpn", "eval_rpn", "print",
               "except"}
    /\ written' = Wrote("stderr", "\ninterrupted", NoVal, NoExc)
    /\ exc' = Exc("KeyboardInterrupt", "", NoVal)
    /\ pc' = "exit"
    /\ UNCHANGED <<line, expr, res, ts, ims, rs, es>>

\* line 31
CallTokenize ==
    /\ pc = "tokenize"
    /\ LET r == tokenize(line) IN
        IF r.exc # NoExc
        THEN exc' = r.exc /\ pc' = "except" /\ expr' = expr
        ELSE expr' = r.tokens /\ pc' = "implicit" /\ exc' = exc
    /\ UNCHANGED <<line, res, written, ts, ims, rs, es>>

\* line 32
CallImplicitMultiplication ==
    /\ pc = "implicit"
    /\ expr' = implicit_multiplication(expr)
    /\ pc' = "to_rpn"
    /\ UNCHANGED <<line, res, exc, written, ts, ims, rs, es>>

\* line 33
CallToRpn ==
    /\ pc = "to_rpn"
    /\ LET r == to_rpn(expr) IN
        IF r.exc # NoExc
        THEN exc' = r.exc /\ pc' = "except" /\ expr' = expr
        ELSE expr' = r.tokens /\ pc' = "eval_rpn" /\ exc' = exc
    /\ UNCHANGED <<line, res, written, ts, ims, rs, es>>

\* line 34
CallEvalRpn ==
    /\ pc = "eval_rpn"
    /\ LET r == eval_rpn(expr) IN
        IF Raised(r)
        THEN exc' = r.exc /\ pc' = "except" /\ res' = res
        ELSE res' = r.val /\ pc' = "print" /\ exc' = exc
    /\ UNCHANGED <<line, expr, written, ts, ims, rs, es>>

\* line 35
PrintResult ==
    /\ pc = "print"
    /\ written' = Wrote("stdout", "%g", res, NoExc)
    /\ pc' = "prompt"
    /\ UNCHANGED <<line, expr, res, exc, ts, ims, rs, es>>

\* lines 36-37: a ValueError is reported and the loop goes on
ExceptValueError ==
    /\ pc = "except"
    /\ IsValueError(exc)
    /\ written' = Wrote("stderr", "error:", NoVal, exc)
    /\ pc' = "prompt"
    /\ UNCHANGED <<line, expr, res, exc, ts, ims, rs, es>>

\* no except clause of main matches: the exception leaves main and the
\* interpreter ends with a traceback
Uncaught ==
    /\ pc = "except"
    /\ ~IsValueError(exc)
    /\ exc # Unmodelled
    /\ written' = Wrote("stderr", "Traceback", NoVal, exc)
    /\ pc' = "traceback"
    /\ UNCHANGED <<line, expr, res, exc, ts, ims, rs, es>>

\* the evaluation left the modelled arithmetic
OutsideModel ==
    /\ pc = "except"
    /\ exc = Unmodelled
    /\ pc' = "unmodelled"
    /\ UNCHANGED <<line, expr, res, exc, written, ts, ims, rs, es>>

Next ==
    \/ Banner \/ Prompt \/ ReadLine \/ ReadEOF \/ Interrupt
    \/ CallTokenize \/ CallImplicitMultiplication \/ CallToRpn \/ CallEvalRpn
    \/ PrintResult \/ ExceptValueError \/ Uncaught \/ OutsideModel

Spec == Init /\ [][Next]_vars

(***************************************************************************)
(* One call of tokenize, pass by pass.                                     *)
(***************************************************************************)
InitTokenize ==
    /\ MainIdle
    /\ \E s0 \in Lines : ts = tokenize_init(s0)
    /\ ims = IdleImplicit /\ rs = IdleToRpn /\ es = IdleEvalRpn

\* the group token_re matches at ts.pos
GroupAt(t) == token_re_match(t.s, t.pos).group

\* lines 169-170: token_re matches nothing at ts.pos, m is None and
\* m.groupdict() raises
TokenizeNoMatch ==
    /\ ts.pc = "while"
    /\ ts.pos < Len(ts.s)
    /\ GroupAt(ts) = "none"
    /\ ts' = tokenize_step(ts)
    /\ UNCHANGED <<mainvars, ims, rs, es>>

\* lines 173-174
TokenizeNumber ==
    /\ ts.pc = "while"
    /\ ts.pos < Len(ts.s)
    /\ GroupAt(ts) = "number"
    /\ ts' = tokenize_step(ts)
    /\ UNCHANGED <<mainvars, ims, rs, es>>

\* lines 177-207
TokenizeSymbol ==
    /\ ts.pc = "while"
    /\ ts.pos < Len(ts.s)
    /\ GroupAt(ts) = "symbol"
    /\ ts' = tokenize_step(ts)
    /\ UNCHANGED <<mainvars, ims, rs, es>>

\* lines 210-219
TokenizeWord ==
    /\ ts.pc = "while"
    /\ ts.pos < Len(ts.s)
    /\ GroupAt(ts) = "word"
    /\ ts' = tokenize_step(ts)
    /\ UNCHANGED <<mainvars, ims, rs, es>>

\* line 223
TokenizeReturn ==
    /\ ts.pc = "while"
    /\ ~(ts.pos < Len(ts.s))
    /\ ts' = tokenize_step(ts)
    /\ UNCHANGED <<mainvars, ims, rs, es>>

NextTokenize ==
    TokenizeNoMatch \/ TokenizeNumber \/ TokenizeSymbol \/ TokenizeWord \/ TokenizeReturn

SpecTokenize == InitTokenize /\ [][NextTokenize]_vars

(***************************************************************************)
(* One call of implicit_multiplication, pass by pass.                      *)
(***************************************************************************)
InitImplicit ==
    /\ MainIdle
    /\ \E toks \in StageInputs(ImplicitAlphabet) : ims = implicit_init(toks)
    /\ ts = IdleTokenize /\ rs = IdleToRpn /\ es = IdleEvalRpn

\* lines 229-233
ImplicitPass ==
    /\ ims.pc = "while"
    /\ ims.i < Len(ims.tokens) - 1
    /\ ims' = implicit_step(ims)
    /\ UNCHANGED <<mainvars, ts, rs, es>>

\* line 234
ImplicitReturn ==
    /\ ims.pc = "while"
    /\ ~(ims.i < Len(ims.tokens) - 1)
    /\ ims' = implicit_step(ims)
    /\ UNCHANGED <<mainvars, ts, rs, es>>

NextImplicit == ImplicitPass \/ ImplicitReturn

SpecImplicit == InitImplicit /\ [][NextImplicit]_vars

(***************************************************************************)
(* One call of to_rpn, step by step.                                       *)
(***************************************************************************)
InitToRpn ==
    /\ MainIdle
    /\ \E toks \in StageInputs(ToRpnAlphabet) : rs = to_rpn_init(toks)
    /\ ts = IdleTokenize /\ ims = IdleImplicit /\ es = IdleEvalRpn

\* lines 247-278: the for loop takes the next token
ToRpnFor ==
    /\ rs.pc = "for"
    /\ rs' = to_rpn_for(rs)
    /\ UNCHANGED <<mainvars, ts, ims, es>>

\* lines 262-268
ToRpnRightParenthesis ==
    /\ rs.pc = "rparen"
    /\ rs' = to_rpn_rparen(rs)
    /\ UNCHANGED <<mainvars, ts, ims, es>>

\* lines 273-278
ToRpnOperator ==
    /\ rs.pc = "oper"
    /\ rs' = to_rpn_oper(rs)
    /\ UNCHANGED <<mainvars, ts, ims, es>>

\* lines 284-291
ToRpnFinal ==
    /\ rs.pc = "final"
    /\ rs' = to_rpn_final(rs)
    /\ UNCHANGED <<mainvars, ts, ims, es>>

NextToRpn == ToRpnFor \/ ToRpnRightParenthesis \/ ToRpnOperator \/ ToRpnFinal

SpecToRpn == InitToRpn /\ [][NextToRpn]_vars

(***************************************************************************)
(* One call of eval_rpn, step by step.                                     *)
(***************************************************************************)
InitEvalRpn ==
    /\ MainIdle
    /\ \E toks \in StageInputs(EvalRpnAlphabet) : es = eval_rpn_init(toks)
    /\ ts = IdleTokenize /\ ims = IdleImplicit /\ rs = IdleToRpn

\* lines 297-305
EvalRpnFor ==
    /\ es.pc = "for"
    /\ es' = eval_rpn_for(es)
    /\ UNCHANGED <<mainvars, ts, ims, rs>>

\* lines 311-314
EvalRpnEnd ==
    /\ es.pc = "end"
    /\ es' = eval_rpn_end(es)
    /\ UNCHANGED <<mainvars, ts, ims, rs>>

NextEvalRpn == EvalRpnFor \/ EvalRpnEnd

SpecEvalRpn == InitEvalRpn /\ [][NextEvalRpn]_vars

(***************************************************************************)
(* Two evaluations at once: the nested call of calclib.main (line 327),    *)
(* stage pass by stage pass, beside the read loop of calc.main.            *)
(***************************************************************************)
FewLines ==
    {<<"2", "(", "3", ")", "-", "e">>, <<"-", "3", "!">>, <<"(", "2">>, <<"3", "/", "0">>,
     <<"e", "!">>, <<"\\x1c">>, <<"2", " ", "s", "i", "n">>}

InitInterleaved ==
    /\ pc = "banner" /\ line = <<>> /\ expr = <<>> /\ res = NoVal /\ exc = NoExc
    /\ written = Wrote("none", "", NoVal, NoExc)
    /\ \E s0 \in FewLines : ts = tokenize_init(s0)
    /\ ims = IdleImplicit /\ rs = IdleToRpn /\ es = IdleEvalRpn

\* line 327: what a stage returns is the argument of the next one
PassToImplicit ==
    /\ ts.pc = "return" /\ ims.pc = "idle"
    /\ ims' = implicit_init(ts.tokens)
    /\ UNCHANGED <<mainvars, ts, rs, es>>

PassToRpn ==
    /\ ims.pc = "return" /\ rs.pc = "idle"
    /\ rs' = to_rpn_init(ims.tokens)
    /\ UNCHANGED <<mainvars, ts, ims, es>>

PassToEvalRpn ==
    /\ rs.pc = "return" /\ es.pc = "idle"
    /\ es' = eval_rpn_init(rs.out)
    /\ UNCHANGED <<mainvars, ts, ims, rs>>

\* calc.py, lines 29-30, for the lines of FewLines
ReadFew ==
    /\ pc = "read"
    /\ \E l \in FewLines :
        /\ line' = strip(l)
        /\ pc' = IF strip(l) # <<>> THEN "tokenize" ELSE "prompt"
    /\ UNCHANGED <<expr, res, exc, written, ts, ims, rs, es>>

NextInterleaved ==
    \/ NextTokenize \/ PassToImplicit \/ NextImplicit \/ PassToRpn \/ NextToRpn
    \/ PassToEvalRpn \/ NextEvalRpn
    \/ Banner \/ Prompt \/ ReadFew \/ ReadEOF \/ Interrupt
    \/ CallTokenize \/ CallImplicitMultiplication \/ CallToRpn \/ CallEvalRpn
    \/ PrintResult \/ ExceptValueError \/ Uncaught \/ OutsideModel

SpecInterleaved == InitInterleaved /\ [][NextInterleaved]_vars

(***************************************************************************)
(* Properties.                                                             *)
(***************************************************************************)
\* what the try block of calc.main ended with: the value of res, or the
\* exception
Evaluated == pc \in {"print", "except"}
Outcome == IF pc = "print" THEN Ret(res) ELSE Raise(exc)

\* the class names of a token list
ClassNames(toks) == [i \in 1..Len(toks) |-> toks[i].cls.clsname]
\* the tokens of the line being evaluated
LineTokens == tokenize(line).tokens

\* op(x, y) for an operator class op, an exception in x passed on
Then2(x, cls, y) ==
    IF Raised(x) THEN x
    ELSE IF Raised(y) THEN y
    ELSE wrap_div_by_zero(cls.func, <<x.val, y.val>>)
Then1(cls, x) == IF Raised(x) THEN x ELSE wrap_div_by_zero(cls.func, <<x.val>>)

IsExponentChain(toks) ==
    ClassNames(toks) = <<"Number", "Exponent", "Number", "Exponent", "Number">>

\* C1: a chain of exponents groups from the right: for a line a^b^c of three
\* numbers, to_rpn emits a b c ^ ^ and the evaluation ends with what
\* a^(b^c) gives.
C1_ExponentRightAssociative ==
    LET t == LineTokens
        pow == binary["^"]
    IN  /\ (pc = "eval_rpn" /\ IsExponentChain(t))
            => expr = <<t[1], t[3], t[5], t[4], t[2]>>
        /\ (Evaluated /\ IsExponentChain(t))
            => Outcome = Then2(Ret(t[1].val), pow, Then2(Ret(t[3].val), pow, Ret(t[5].val)))

\* 2^3^2 has been evaluated to 512
C1_Witness ==
    /\ pc = "print"
    /\ line = <<"2", "^", "3", "^", "2">>
    /\ res = Int0(512)

IsPrefixThenBinary(toks) ==
    /\ Len(toks) = 4
    /\ IsOperator(toks[1]) /\ toks[1].cls.nargs = 1 /\ toks[1].cls.assoc = RIGHT
    /\ IsNumber(toks[2])
    /\ IsOperator(toks[3]) /\ toks[3].cls.nargs = 2
    /\ IsNumber(toks[4])

\* C2: a prefix unary operator binds tighter than every binary operator: for
\* a line u x b y (u a prefix unary operator, b a binary operator, x and y
\* numbers) to_rpn emits x u y b and the evaluation ends with what (u x) b y
\* gives.
C2_PrefixUnaryBindsTighter ==
    LET t == LineTokens IN
    /\ (pc = "eval_rpn" /\ IsPrefixThenBinary(t)) => expr = <<t[2], t[1], t[4], t[3]>>
    /\ (Evaluated /\ IsPrefixThenBinary(t))
        => Outcome = Then2(Then1(t[1].cls, Ret(t[2].val)), t[3].cls, Ret(t[4].val))

\* -2^2 has been evaluated to 4
C2_Witness ==
    /\ pc = "print"
    /\ line = <<"-", " ", "2", "^", "2">>
    /\ res = Int0(4)

\* a value before (a number or a right parenthesis) directly followed by a
\* value after (a number or a left parenthesis)
IsJuxtaposition(a, b) ==
    /\ IsNumber(a) \/ IsRightParenthesis(a)
    /\ IsNumber(b) \/ IsLeftParenthesis(b)

\* the offsets in s at which the tokens of s start
RECURSIVE MatchStarts(_, _)
MatchStarts(s, pos) ==
    IF ~(pos < Len(s)) THEN <<>>
    ELSE <<pos>> \o MatchStarts(s, token_re_match(s, pos).end)

\* s with a * written before the token i + 1 at each juxtaposition i, i + 1
\* among the first n tokens
RECURSIVE StarsUpTo(_, _, _, _)
StarsUpTo(s, toks, starts, n) ==
    IF n < 2 THEN s
    ELSE LET rest == StarsUpTo(s, toks, starts, n - 1)
             shift == Len(rest) - Len(s)
             at == starts[n] + shift
         IN  IF IsJuxtaposition(toks[n - 1], toks[n])
             THEN SubSeq(rest, 1, at) \o <<"*">> \o SubSeq(rest, at + 1, Len(rest))
             ELSE rest

HasJuxtaposition(s) ==
    LET t == tokenize(s) IN
    /\ t.exc = NoExc
    /\ \E i \in 1..(Len(t.tokens) - 1) : IsJuxtaposition(t.tokens[i], t.tokens[i + 1])

WithStars(s) ==
    LET t == tokenize(s) IN
    IF t.exc # NoExc THEN s
    ELSE StarsUpTo(strip(s), t.tokens, MatchStarts(strip(s), 0), Len(t.tokens))

\* C3: juxtaposition is multiplication: a line in which a number or ')' is
\* directly followed by a number or '(' ends with the same value or the same
\* error as the line with * written at each such place.
C3_JuxtapositionIsMultiplication ==
    (Evaluated /\ HasJuxtaposition(line)) => Outcome = evaluate(WithStars(line))

\* 2(3) has been evaluated to 6, as 2*(3) is
C3_Witness ==
    /\ pc = "print"
    /\ line = <<"2", "(", "3", ")">>
    /\ WithStars(line) = <<"2", "*", "(", "3", ")">>
    /\ res = Int0(6)

\* how many of the first n tokens are of class clsname
RECURSIVE CountOf(_, _, _)
CountOf(toks, clsname, n) ==
    IF n = 0 THEN 0
    ELSE CountOf(toks, clsname, n - 1) + (IF toks[n].cls.clsname = clsname THEN 1 ELSE 0)

\* some prefix holds more right than left parentheses
ClosesUnopened(toks) ==
    \E n \in 1..Len(toks) :
        CountOf(toks, "RightParenthesis", n) > CountOf(toks, "LeftParenthesis", n)
\* the whole sequence holds more left than right parentheses
LeavesOpen(toks) ==
    CountOf(toks, "LeftParenthesis", Len(toks)) > CountOf(toks, "RightParenthesis", Len(toks))

ToRpnRaised(msg) ==
    rs.pc = "raise" /\ rs.exc = Exc("CalcSyntaxError", msg, NoVal)

\* C4: to_rpn reports unbalanced parentheses exactly: it fails with "too many
\* right parentheses" iff some prefix of the tokens holds more ')' than '(';
\* otherwise it fails with "too many left parentheses" iff the whole
\* sequence holds more '(' than ')'; otherwise it returns.
C4_ParenthesesBalance ==
    rs.pc \in {"return", "raise"} =>
        IF ClosesUnopened(rs.tokens) THEN ToRpnRaised("too many right parentheses")
        ELSE IF LeavesOpen(rs.tokens) THEN ToRpnRaised("too many left parentheses")
        ELSE rs.pc = "return"

\* ( 2 - 2 has failed with too many left parentheses
C4_Witness ==
    /\ ToRpnRaised("too many left parentheses")
    /\ ClassNames(rs.tokens) = <<"LeftParenthesis", "Number", "Subtraction", "Number">>

\* 2 - 2 ) has failed with too many right parentheses
C4_WitnessRight ==
    /\ ToRpnRaised("too many right parentheses")
    /\ ClassNames(rs.tokens) = <<"Number", "Subtraction", "Number", "RightParenthesis">>

\* C5, as claimed: the loop of calc.main ends only on end of input or on an
\* interrupt; a line whose evaluation fails never ends it.
C5_ErrorsAreNonFatal ==
    pc \in {"exit", "traceback"} => exc.type \in {"EOFError", "KeyboardInterrupt"}

\* eval_rpn is about to take an operator token
AtOperator == es.pc = "for" /\ es.k < Len(es.tokens) /\ IsOperator(es.tokens[es.k + 1])
\* the token eval_rpn is about to take
NextToken == es.tokens[es.k + 1]
\* the value stack of eval_rpn below its top n values
Below(stack, n) == SubSeq(stack, 1, Len(stack) - n)
\* eval_rpn has failed, nothing pushed and nothing returned
EvalRpnAborts(stack) == es'.pc = "raise" /\ es'.stack = stack /\ es'.val = NoVal

\* C6: eval_rpn accepts only sequences that reduce to one value. An operator
\* of arity n reached with fewer than n values on the stack fails with the
\* syntax error "not enough values"; otherwise the top n values are replaced
\* by the one result of the operator (when its function yields one). After
\* the last token eval_rpn returns the value iff the stack holds exactly
\* one, and fails with a syntax error on 0 or on more than 1.
C6_StackDiscipline ==
    [][/\ AtOperator =>
            LET n == NextToken.cls.nargs IN
            IF Len(es.stack) < n
            THEN /\ EvalRpnAborts(es.stack)
                 /\ es'.exc = Exc("CalcSyntaxError", "not enough values for %s",
                                  Str(NextToken.cls.name))
            ELSE \/ /\ es'.pc = "for"
                    /\ Len(es'.stack) = Len(es.stack) - n + 1
                    /\ Below(es'.stack, 1) = Below(es.stack, n)
                    /\ es'.stack[Len(es'.stack)].kind \in {"exact", "sym", "symint"}
                 \* the operator's function has failed: no result
                 \/ /\ EvalRpnAborts(es.stack)
                    /\ es'.exc.type # "CalcSyntaxError"
       /\ es.pc = "end" =>
            IF Len(es.stack) = 1
            THEN es'.pc = "return" /\ es'.val = es.stack[1]
            ELSE /\ EvalRpnAborts(es.stack)
                 /\ es'.exc.type = "CalcSyntaxError"]_vars

\* 2 3 - - has failed at the second subtraction, one value on the stack
C6_Witness ==
    /\ es.pc = "raise"
    /\ ClassNames(es.tokens) = <<"Number", "Number", "Subtraction", "Subtraction">>
    /\ es.exc = Exc("CalcSyntaxError", "not enough values for %s", Str("-"))
    /\ Len(es.stack) = 1

\* 2 3 has failed after the last token, two values on the stack
C6_WitnessLeftOver ==
    /\ es.pc = "raise"
    /\ ClassNames(es.tokens) = <<"Number", "Number">>
    /\ es.exc.type = "CalcSyntaxError"
    /\ Len(es.stack) = 2

\* C7: division by zero is an arithmetic failure with its own message. For
\* every number x, a division of x by 0 makes eval_rpn fail with the message
\* "division by zero" at that operator: nothing is pushed, nothing returned.
C7_DivisionByZero ==
    [][(/\ AtOperator
        /\ NextToken.cls = binary["/"]
        /\ Len(es.stack) >= 2
        /\ IsExact(es.stack[Len(es.stack)])
        /\ es.stack[Len(es.stack)].n = 0)
       => /\ EvalRpnAborts(es.stack)
          /\ es'.exc = Exc("ZeroDivisionError", "division by zero", NoVal)]_vars

\* 3 0 / has failed with division by zero, 3 and 0 still on the stack
C7_Witness ==
    /\ es.pc = "raise"
    /\ es.exc = Exc("ZeroDivisionError", "division by zero", NoVal)
    /\ es.tokens = Positioned(<<Number(Int0(3), 0), Number(Int0(0), 0),
                                Instance(binary["/"], 0)>>)
    /\ es.stack = <<Int0(3), Int0(0)>>
    /\ es.val = NoVal

\* 1*2*...*n
RECURSIVE Product1To(_)
Product1To(n) == IF n = 0 THEN 1 ELSE n * Product1To(n - 1)

\* C8: factorial is defined exactly on the non-negative integers. For a
\* non-negative integer n, n! is the product 1*2*...*n; for a negative value
\* and for a value that is not an integer the evaluation fails with the
\* error of the factorial function and nothing is returned. (The product of
\* an n above 12 is not computed here, and an n above 170 is left out.)
C8_FactorialDomain ==
    [][(/\ AtOperator
        /\ NextToken.cls = unary["!"]
        /\ Len(es.stack) >= 1
        /\ IsExact(es.stack[Len(es.stack)]))
       => LET v == es.stack[Len(es.stack)] IN
          IF IsInt(v) /\ v.n >= 0
          THEN v.n <= 170 =>
                /\ es'.pc = "for"
                /\ Below(es'.stack, 1) = Below(es.stack, 1)
                /\ es'.stack[Len(es'.stack)] =
                      IF v.n <= 12 /\ Product1To(v.n) <= ExactLimit
                      THEN PyInt(Product1To(v.n))
                      ELSE SymInt("!", <<v>>)
          ELSE /\ EvalRpnAborts(es.stack)
               /\ es'.exc.type = "ValueError"
               /\ es'.exc.arg = v
               /\ es'.exc.msg =
                     IF ~IsInt(v)
                     THEN "cannot calculate factorial of %s: number must be an integer"
                     ELSE "cannot calculate factorial of %s: number must be non-negative"]_vars

\* 3 ! has returned 6
C8_Witness ==
    /\ es.pc = "return"
    /\ ClassNames(es.tokens) = <<"Number", "Factorial">>
    /\ es.tokens[1].val = Int0(3)
    /\ es.val = PyInt(6)

\* 3 - ! has failed: -3 is negative
C8_WitnessNegative ==
    /\ es.pc = "raise"
    /\ ClassNames(es.tokens) = <<"Number", "Negative", "Factorial">>
    /\ es.exc.type = "ValueError"
    /\ es.stack = <<Int0(-3)>>

\* 1/2 ! has failed: 0.5 is not an integer
C8_WitnessFraction ==
    /\ es.pc = "raise"
    /\ ClassNames(es.tokens) = <<"Number", "Factorial">>
    /\ es.exc.type = "ValueError"
    /\ es.stack = <<Exact(1, 2)>>

\* tokenize is about to take a lexeme that starts with a character of cls
AtLexeme(cls) == ts.pc = "while" /\ ts.pos < Len(ts.s) /\ ts.s[ts.pos + 1] \in cls
\* the longest run of lowercase letters of s from offset p on, as one string
RECURSIVE WordFrom(_, _)
WordFrom(s, p) ==
    IF p < Len(s) /\ s[p + 1] \in Lower THEN s[p + 1] \o WordFrom(s, p + 1) ELSE ""
\* tokenize has produced one more token
Emits == ts'.pc = "while" /\ Len(ts'.tokens) = Len(ts.tokens) + 1
                          /\ SubSeq(ts'.tokens, 1, Len(ts.tokens)) = ts.tokens
Emitted == ts'.tokens[Len(ts'.tokens)]
\* tokenize has failed with a syntax error of this message about this key
Rejects(type, msg, key) == ts'.pc = "raise" /\ ts'.exc = Exc(type, msg, Str(key))

ConstantNames == {"e", "pi"}
FunctionNames == {"sqrt", "sin", "cos", "tan", "asin", "acos", "atan",
                  "arcsin", "arccos", "arctan"}

\* C9: word resolution in tokenize. A maximal run of lowercase letters that
\* names a constant (e, pi) emits a number token with the constant's value;
\* one that names a unary operator emits that operator; any other word
\* makes tokenize fail with a name error, no tokens returned.
C9_WordResolution ==
    [][AtLexeme(Lower) =>
        LET key == WordFrom(ts.s, ts.pos) IN
        IF key \in ConstantNames
        THEN /\ Emits
             /\ IsNumber(Emitted)
             /\ Emitted.val = Sym(IF key = "e" THEN "math.e" ELSE "math.pi", <<>>)
        ELSE IF key \in FunctionNames
        THEN /\ Emits
             /\ Emitted.cls.nargs = 1
             /\ Emitted.cls = unary[key]
             /\ Emitted.pos = ts.pos
        ELSE /\ Rejects("CalcNameError", "I don't know what '%s' means", key)
             /\ tokenize(ts.s) = Fail(ts'.exc)]_vars

\* pie has failed with a name error
C9_Witness ==
    /\ ts.s = <<"p", "i", "e">>
    /\ ts.pc = "raise"
    /\ ts.exc = Exc("CalcNameError", "I don't know what '%s' means", Str("pie"))

\* pi has been read as the number pi
C9_WitnessConstant ==
    /\ ts.s = <<"p", "i">>
    /\ ts.pc = "return"
    /\ Len(ts.tokens) = 1
    /\ IsNumber(ts.tokens[1])
    /\ ts.tokens[1].val = Sym("math.pi", <<>>)

\* the symbols of the two operator tables
PrefixSymbols == {"-", "+"}
BinarySymbols == {"^", "/", "*", "+", "-"}
PostfixSymbols == {"!"}
\* what the last token produced so far is
NoPrev == ts.tokens = <<>>
Prev == ts.tokens[Len(ts.tokens)]
PrevIs(names) == ~NoPrev /\ Prev.cls.clsname \in names
BinaryClasses == {"Exponent", "Division", "Multiplication", "Addition", "Subtraction"}
PrefixClasses == {"Negative", "Positive", "SquareRoot", "Sine", "Cosine", "Tangent",
                  "InverseSine", "InverseCosine", "InverseTangent"}
\* prev is absent, is a '(' or is an operator that is binary or right-associative
ExpectsPrefix ==
    \/ NoPrev
    \/ PrevIs({"LeftParenthesis"})
    \/ PrevIs(BinaryClasses \cup PrefixClasses)
\* the class a symbol stands for as a prefix, as a binary and as a postfix operator
PrefixClassOf(key) == IF key = "-" THEN "Negative" ELSE "Positive"
BinaryClassOf(key) ==
    CASE key = "^" -> "Exponent" [] key = "/" -> "Division"
      [] key = "*" -> "Multiplication" [] key = "+" -> "Addition"
      [] key = "-" -> "Subtraction"
EmitsClass(clsname, nargs) ==
    /\ Emits
    /\ Emitted.cls.clsname = clsname
    /\ Emitted.cls.nargs = nargs
    /\ Emitted.pos = ts.pos
RejectsSymbol(key) ==
    IF key \in PrefixSymbols \cup BinarySymbols \cup PostfixSymbols
    THEN Rejects("CalcSyntaxError", "operator '%s' is in the wrong place", key)
    ELSE Rejects("CalcSyntaxError", "invalid operator: %s", key)

\* tokenize is about to take a symbol other than '(' and ')': an operator
\* symbol, or a '.' that starts no number
AtSymbol ==
    \/ AtLexeme({"^", "/", "*", "+", "-", "!"})
    \/ /\ AtLexeme({"."})
       /\ ~(ts.pos + 1 < Len(ts.s) /\ ts.s[ts.pos + 2] \in Digit)

\* C10: the context rule for symbols in tokenize. For a symbol other than
\* '(' and ')': if the previous token is absent, is a '(' or is an operator
\* that is binary or right-associative, the symbol is accepted only as a
\* right-associative unary operator; otherwise only as '!' or as a binary
\* operator. A rejected symbol of neither table fails with "invalid
\* operator", one of a table with "operator ... is in the wrong place".
\* Hence '-' after a number, ')' or '!' is subtraction, and '-' at the
\* start, after '(' or after a binary or prefix operator is negation.
C10_SymbolContext ==
    [][AtSymbol =>
        LET key == ts.s[ts.pos + 1] IN
        /\ IF ExpectsPrefix
           THEN IF key \in PrefixSymbols
                THEN EmitsClass(PrefixClassOf(key), 1) /\ Emitted.cls.assoc = RIGHT
                ELSE RejectsSymbol(key)
           ELSE IF key \in PostfixSymbols
                THEN EmitsClass("Factorial", 1) /\ Emitted.cls.assoc = LEFT
                ELSE IF key \in BinarySymbols
                THEN EmitsClass(BinaryClassOf(key), 2)
                ELSE RejectsSymbol(key)
        /\ (key = "-" /\ PrevIs({"Number", "RightParenthesis", "Factorial"}))
              => EmitsClass("Subtraction", 2)
        /\ (key = "-" /\ (NoPrev \/ PrevIs({"LeftParenthesis"} \cup BinaryClasses
                                              \cup PrefixClasses)))
              => EmitsClass("Negative", 1)]_vars

\* in - - 2 the second '-', after a prefix operator, has been read as negation
C10_Witness ==
    /\ ts.s = <<"-", "-", "2">>
    /\ ClassNames(ts.tokens) = <<"Negative", "Negative">>

\* in 2 ! - the '-' after '!' has been read as subtraction
C10_WitnessSubtraction ==
    /\ ts.s = <<"2", "!", "-">>
    /\ ClassNames(ts.tokens) = <<"Number", "Factorial", "Subtraction">>

\* ( ! has failed: '!' is in the wrong place
C10_WitnessWrongPlace ==
    /\ ts.s = <<"(", "!">>
    /\ ts.pc = "raise"
    /\ ts.exc = Exc("CalcSyntaxError", "operator '%s' is in the wrong place", Str("!"))

\* 2 . has failed: '.' alone is an invalid operator
C10_WitnessInvalid ==
    /\ ts.s = <<"2", " ", ".">>
    /\ ts.pc = "raise"
    /\ ts.exc = Exc("CalcSyntaxError", "invalid operator: %s", Str("."))

\* numbers alternating with binary operators, no parenthesis
IsBinaryChain(toks) ==
    /\ Len(toks) >= 3 /\ Len(toks) % 2 = 1
    /\ \A i \in 1..Len(toks) :
        IF i % 2 = 1 THEN IsNumber(toks[i])
        ELSE IsOperator(toks[i]) /\ toks[i].cls.nargs = 2

\* the level at which a binary operator groups: ^ first, then * and /,
\* then + and -
Level(tok) ==
    CASE tok.cls.clsname = "Exponent" -> 1
      [] tok.cls.clsname \in {"Multiplication", "Division"} -> 2
      [] tok.cls.clsname \in {"Addition", "Subtraction"} -> 3

\* the operator applied last in a chain: of the operators of the loosest
\* level the rightmost one, for ^ the leftmost one
LastApplied(toks) ==
    LET ops == {i \in 1..Len(toks) : i % 2 = 0}
        loosest == CHOOSE l \in {Level(toks[i]) : i \in ops} :
                        \A i \in ops : Level(toks[i]) <= l
        at == {i \in ops : Level(toks[i]) = loosest}
    IN  IF loosest = 1 THEN CHOOSE i \in at : \A j \in at : i <= j
        ELSE CHOOSE i \in at : \A j \in at : j <= i

\* the value of a chain grouped by level and, within a level, from the left
\* (from the right for ^)
RECURSIVE Grouped(_)
Grouped(toks) ==
    IF Len(toks) = 1 THEN Ret(toks[1].val)
    ELSE LET i == LastApplied(toks)
         IN  Then2(Grouped(SubSeq(toks, 1, i - 1)), toks[i].cls,
                   Grouped(SubSeq(toks, i + 1, Len(toks))))

\* C11: binary precedence and left associativity: a line of numbers
\* alternating with binary operators, without parentheses, ends with the
\* value (or the error) of the expression grouped by rank, ^ before * and /
\* before + and -, operators of one rank grouping from the left, except ^.
C11_BinaryPrecedence ==
    (Evaluated /\ IsBinaryChain(LineTokens)) => Outcome = Grouped(LineTokens)

\* 4-3-2 has been evaluated to -1 or 4/2*3 to 6
C11_Witness ==
    /\ pc = "print"
    /\ \/ line = <<"4", "-", "3", "-", "2">> /\ res = Int0(-1)
       \/ line = <<"4", "/", "2", "*", "3">> /\ res = Int0(6)
    /\ IsBinaryChain(LineTokens)

\* 2+3*4 has been evaluated to 14 or 2*3^2 to 18
C11_WitnessRanks ==
    /\ pc = "print"
    /\ \/ line = <<"2", "+", "3", "*", "4">> /\ res = Int0(14)
       \/ line = <<"2", "*", "3", "^", "2">> /\ res = Int0(18)

IsFactorial(tok) == IsOperator(tok) /\ tok.cls.clsname = "Factorial"
IsPrefix(tok) == IsOperator(tok) /\ tok.cls.nargs = 1 /\ tok.cls.clsname # "Factorial"

\* u x !
IsPrefixThenPostfix(toks) ==
    Len(toks) = 3 /\ IsPrefix(toks[1]) /\ IsNumber(toks[2]) /\ IsFactorial(toks[3])
\* y b x !
IsBinaryThenPostfix(toks) ==
    /\ Len(toks) = 4
    /\ IsNumber(toks[1])
    /\ IsOperator(toks[2]) /\ toks[2].cls.nargs = 2
    /\ IsNumber(toks[3]) /\ IsFactorial(toks[4])

\* C12: the postfix factorial binds tighter than every prefix unary and
\* every binary operator: a line u x ! ends with what u (x!) gives and a
\* line y b x ! with what y b (x!) gives; to_rpn emits x ! u and y x ! b.
C12_PostfixBindsTightest ==
    LET t == LineTokens IN
    /\ (pc = "eval_rpn" /\ IsPrefixThenPostfix(t)) => expr = <<t[2], t[3], t[1]>>
    /\ (pc = "eval_rpn" /\ IsBinaryThenPostfix(t)) => expr = <<t[1], t[3], t[4], t[2]>>
    /\ (Evaluated /\ IsPrefixThenPostfix(t))
        => Outcome = Then1(t[1].cls, Then1(t[3].cls, Ret(t[2].val)))
    /\ (Evaluated /\ IsBinaryThenPostfix(t))
        => Outcome = Then2(Ret(t[1].val), t[2].cls, Then1(t[4].cls, Ret(t[3].val)))

\* - 4! has been evaluated to -24
C12_Witness ==
    /\ pc = "print"
    /\ line = <<"-", " ", "4", "!">>
    /\ res = PyInt(-24)

\* 2^3! has been evaluated to 64
C12_WitnessBinary ==
    /\ pc = "print"
    /\ line = <<"2", "^", "3", "!">>
    /\ res = Int0(64)

\* the places of toks at which a value before is directly followed by a
\* value after
Juxtapositions(toks) ==
    {i \in 1..(Len(toks) - 1) : IsJuxtaposition(toks[i], toks[i + 1])}

\* a multiplication token at position pos
IsStarAt(tok, pos) ==
    /\ IsOperator(tok) /\ tok.cls.clsname = "Multiplication" /\ tok.cls.nargs = 2
    /\ tok.pos = pos

\* toks without the tokens at the places in K
RECURSIVE Without(_, _)
Without(toks, K) ==
    IF toks = <<>> THEN <<>>
    ELSE Without(SubSeq(toks, 1, Len(toks) - 1), K)
            \o (IF Len(toks) \in K THEN <<>> ELSE <<toks[Len(toks)]>>)

\* C13: the post-condition of implicit_multiplication: in the list returned
\* no number or ')' is directly followed by a number or '('; the tokens
\* inserted are binary multiplications, each with the position of the token
\* after it, each between a value before and a value after; without them the
\* list is the list given, in order; there is one of them for each
\* juxtaposition of the list given.
C13_ImplicitPostCondition ==
    ims.pc = "return" =>
        LET r == ims.tokens IN
        /\ Juxtapositions(r) = {}
        /\ \E K \in SUBSET (2..(Len(r) - 1)) :
            /\ \A k \in K :
                /\ IsStarAt(r[k], r[k + 1].pos)
                /\ k - 1 \notin K /\ k + 1 \notin K
                /\ IsJuxtaposition(r[k - 1], r[k + 1])
            /\ Without(r, K) = ims.given
            /\ Cardinality(K) = Cardinality(Juxtapositions(ims.given))

\* 2 2 2 has been returned as 2 * 2 * 2, the multiplications at the
\* positions 1 and 2 of the numbers after them
C13_Witness ==
    /\ ims.pc = "return"
    /\ Len(ims.given) = 3 /\ \A i \in 1..3 : IsNumber(ims.given[i]) /\ ims.given[i].pos = i - 1
    /\ Len(ims.tokens) = 5
    /\ IsStarAt(ims.tokens[2], 1) /\ IsStarAt(ims.tokens[4], 2)

\* sin 2 and 2 ! 2 have been returned as they were given
C13_WitnessNone ==
    /\ ims.pc = "return"
    /\ ims.tokens = ims.given
    /\ \/ ClassNames(ims.given) = <<"Sine", "Number">>
       \/ ClassNames(ims.given) = <<"Number", "Factorial", "Number">>

IsParenthesis(tok) == IsLeftParenthesis(tok) \/ IsRightParenthesis(tok)
\* the left parentheses on the operator stack of to_rpn
OpenOnStack(f) == CountOf(f.stack, "LeftParenthesis", Len(f.stack))

\* the output of to_rpn holds no parenthesis, and what it returns holds
\* numbers and operators of one or two arguments only
NoParenthesisInOutput ==
    /\ \A i \in 1..Len(rs.out) : ~IsParenthesis(rs.out[i])
    /\ \A i \in 1..Len(rs.stack) : ~IsRightParenthesis(rs.stack[i])
    /\ rs.pc = "return" =>
        \A i \in 1..Len(rs.out) :
            \/ IsNumber(rs.out[i])
            \/ IsOperator(rs.out[i]) /\ rs.out[i].cls.nargs \in {UNARY, BINARY}

\* a step of the precedence loop pops no left parenthesis, and a left
\* parenthesis leaves the stack only with its right parenthesis or, at the
\* end of the input, as the error
LeftParenthesisLeaves ==
    /\ (rs.pc = "oper" /\ Len(rs'.stack) < Len(rs.stack))
        => ~IsLeftParenthesis(Top(rs.stack))
    /\ OpenOnStack(rs') < OpenOnStack(rs)
        => /\ OpenOnStack(rs') = OpenOnStack(rs) - 1
           /\ \/ rs.pc = "rparen" /\ IsRightParenthesis(rs.token) /\ rs'.pc = "for"
              \/ /\ rs.pc = "final" /\ rs.k = Len(rs.tokens) /\ rs'.pc = "raise"
                 /\ rs'.exc = Exc("CalcSyntaxError", "too many left parentheses", NoVal)

\* C14: in to_rpn the precedence-popping rule never removes a '(' from the
\* operator stack; a '(' leaves the stack only when its ')' is processed or
\* at the end of the input as "too many left parentheses"; so the output
\* never holds a parenthesis, and the RPN returned holds only numbers and
\* operators of arity 1 or 2.
C14_ParenthesisStaysOnStack ==
    []NoParenthesisInOutput /\ [][LeftParenthesisLeaves]_vars

\* an operator has been pushed on top of a left parenthesis that the
\* precedence loop left in place
C14_Witness ==
    /\ rs.pc = "for"
    /\ Len(rs.stack) = 2
    /\ IsLeftParenthesis(rs.stack[1])
    /\ IsOperator(rs.stack[2]) /\ rs.stack[2].cls.nargs = 2
    /\ rs.token = rs.stack[2]

\* ( 2 ) ! has been returned as 2 !
C14_WitnessReturn ==
    /\ rs.pc = "return"
    /\ ClassNames(rs.tokens) = <<"LeftParenthesis", "Number", "RightParenthesis", "Factorial">>
    /\ ClassNames(rs.out) = <<"Number", "Factorial">>

\* C15: every token of the list tokenize builds carries the offset, in the
\* stripped input, of the first character it was scanned from: the i-th
\* token the offset at which the i-th match started, for literals, symbols,
\* function names, parentheses and the constants e and pi alike.
C15_TokensCarryOffsets ==
    ts.pc \in {"while", "return"} =>
        \A i \in 1..Len(ts.tokens) : ts.tokens[i].pos = MatchStarts(ts.s, 0)[i]

\* the tokens scanned from anything but a constant name do carry their offsets
C15_OffsetsButConstants ==
    ts.pc \in {"while", "return"} =>
        \A i \in 1..Len(ts.tokens) :
            LET at == MatchStarts(ts.s, 0)[i] IN
            IF WordFrom(ts.s, at) \in ConstantNames
            THEN ts.tokens[i] = constants[WordFrom(ts.s, at)] /\ ts.tokens[i].pos = NoPos
            ELSE ts.tokens[i].pos = at

\* a pass of the loop of tokenize finds a match of token_re at its position
PatternMatches ==
    (ts.pc = "while" /\ ts.pos < Len(ts.s) /\ ts' # ts) => GroupAt(ts) # "none"
\* a pass of the loop of tokenize that goes on has moved the position forward
PositionIncreases ==
    (ts.pc = "while" /\ ts'.pc = "while") => (ts'.pos > ts.pos /\ ts'.pos <= Len(ts.s))

\* C16: tokenize terminates on every input because the pattern matches at
\* every position at which it is tried and the position strictly increases
\* on each iteration until the input is exhausted.
C16_TokenizeAlwaysMatches == [][PatternMatches /\ PositionIncreases]_vars

\* the passes of each stage are taken as long as one is possible
FairTokenize == SpecTokenize /\ WF_vars(NextTokenize)
FairImplicit == SpecImplicit /\ WF_vars(NextImplicit)
FairToRpn == SpecToRpn /\ WF_vars(NextToRpn)
FairEvalRpn == SpecEvalRpn /\ WF_vars(NextEvalRpn)

\* each call ends, with a return or with an exception
TokenizeEnds == <>(ts.pc \in {"return", "raise"})
ImplicitEnds == <>(ims.pc = "return")
ToRpnEnds == <>(rs.pc \in {"return", "raise"})
EvalRpnEnds == <>(es.pc \in {"return", "raise"})

\* the position of tokenize moves forward whenever its loop goes on
TokenizeAdvances == [][PositionIncreases]_vars

\* in implicit_multiplication the scan index moves on by one in each pass,
\* and a pass that has inserted is followed by one that does not
ImplicitAdvances ==
    [][(ims.pc = "while" /\ ims'.pc = "while") =>
        /\ ims'.i = ims.i + 1
        /\ Len(ims'.tokens) > Len(ims.tokens) =>
            (ims'.i < Len(ims'.tokens) - 1 => implicit_step(ims').tokens = ims'.tokens)]_vars

\* to_rpn and eval_rpn take each token once, and a pass of an inner loop of
\* to_rpn shortens the stack
PopLoopsBounded ==
    [][/\ rs'.k \in {rs.k, rs.k + 1}
       /\ es'.k \in {es.k, es.k + 1}
       /\ (rs.pc = rs'.pc /\ rs.pc \in {"rparen", "oper", "final"})
            => Len(rs'.stack) = Len(rs.stack) - 1]_vars

\* the offsets of s at which a match of token_re from pos on ends
RECURSIVE LexemeEnds(_, _)
LexemeEnds(s, pos) ==
    IF ~(pos < Len(s)) THEN {}
    ELSE LET m == token_re_match(s, pos)
         IN  IF m.group = "none" THEN {Len(s)} ELSE {m.end} \cup LexemeEnds(s, m.end)

\* the fault of the first lexeme of s, from the left, at which tokenize fails
FirstFault(s) ==
    LET faulty == {e \in LexemeEnds(s, 0) : tokenize(SubSeq(s, 1, e)).exc # NoExc}
        first == CHOOSE e \in faulty : \A d \in faulty : e <= d
    IN  tokenize(SubSeq(s, 1, first)).exc

\* the parentheses of a token list do not balance
Unbalanced(toks) == ClosesUnopened(toks) \/ LeavesOpen(toks)

\* C17: the stages fail fast in pipeline order. A line with a tokenizer
\* fault ends with that fault, the first one from the left, whatever
\* parenthesis or arithmetic fault stands before it in the text, and reaches
\* no later stage; a line that tokenizes but whose parentheses do not
\* balance ends with the parenthesis error (the first one in the order of
\* the tokens) and never reaches eval_rpn, so that no operator is applied;
\* a line that fails prints no result.
C17_FailFast ==
    LET t == tokenize(line)
        toks == implicit_multiplication(t.tokens)
    IN  /\ pc \in {"implicit", "to_rpn", "eval_rpn", "print"} => t.exc = NoExc
        /\ pc \in {"eval_rpn", "print"} => ~Unbalanced(toks)
        /\ (Evaluated /\ t.exc # NoExc) => (pc = "except" /\ exc = FirstFault(line))
        /\ (Evaluated /\ t.exc = NoExc /\ Unbalanced(toks)) =>
            /\ pc = "except"
            /\ exc = Exc("CalcSyntaxError",
                         IF ClosesUnopened(toks) THEN "too many right parentheses"
                         ELSE "too many left parentheses", NoVal)
        /\ (pc = "prompt" /\ written.stream = "stdout") =>
            (t.exc = NoExc /\ ~Unbalanced(toks) /\ written.val = res)

\* (3/0 has ended with too many left parentheses, not with the division by
\* zero
C17_Witness ==
    /\ pc = "except"
    /\ line = <<"(", "3", "/", "0">>
    /\ exc = Exc("CalcSyntaxError", "too many left parentheses", NoVal)

\* 3/0// and )// have ended with the fault of the second /
C17_WitnessTokenizer ==
    /\ pc = "except"
    /\ line \in {<<"3", "/", "0", "/", "/">>, <<")", "/", "/">>}
    /\ exc = Exc("CalcSyntaxError", "operator '%s' is in the wrong place", Str("/"))

\* no stage changes the list it was given: implicit_multiplication works on
\* its copy, to_rpn and eval_rpn only read; and the list a stage returned
\* stays as it was while the next stage works on it
ListsGivenAreKept ==
    /\ ims.pc # "idle" => (ims'.given = ims.given /\ ims.given = ts.tokens /\ ts' = ts)
    /\ rs.pc # "idle" => (rs'.tokens = rs.tokens /\ rs.tokens = ims.tokens /\ ims' = ims)
    /\ es.pc # "idle" => (es'.tokens = es.tokens /\ es.tokens = rs.out /\ rs' = rs)

\* each of the two evaluations ends as it ends alone
ResultsAsAlone ==
    /\ ts.pc = "raise" => evaluate(ts.s) = Raise(ts.exc)
    /\ rs.pc = "raise" => evaluate(ts.s) = Raise(rs.exc)
    /\ es.pc = "raise" => evaluate(ts.s) = Raise(es.exc)
    /\ es.pc = "return" => evaluate(ts.s) = Ret(es.val)
    /\ Evaluated => Outcome = evaluate(line)

C18_WitnessInterleaved ==
    /\ rs.pc = "oper" /\ pc = "to_rpn"
    /\ ts.s # line

\* a function name
IsFunction(tok) == IsOperator(tok) /\ tok.cls.name \in FunctionNames

\* the line tokenizes, and its last token is a function name that directly
\* follows a number, a constant or a right parenthesis
EndsWithFunctionAfterValue(s) ==
    LET t == tokenize(s)
        n == Len(t.tokens)
    IN  /\ t.exc = NoExc
        /\ n >= 2
        /\ IsFunction(t.tokens[n])
        /\ IsNumber(t.tokens[n - 1]) \/ IsRightParenthesis(t.tokens[n - 1])

\* C19: a prefix function is only ever applied to an operand written after
\* it: a line in which a function name directly follows a number, a
\* constant or ')' and is followed by nothing returns no number and fails.
C19_FunctionNeedsOperandAfter ==
    (Evaluated /\ EndsWithFunctionAfterValue(line)) => pc = "except"

\* what happens instead: the function is applied to the value written
\* before it, so that 2 sin gives what sin 2 gives
C19_FunctionTakesValueBefore ==
    (Evaluated /\ line \in {<<"2", " ", "s", "i", "n">>, <<"2", "s", "i", "n">>})
        => (pc = "print" /\ Ret(res) = evaluate(<<"s", "i", "n", " ", "2">>))
====
